---- MODULE Spec2Model ----
(***************************************************************************)
(* Zigbee attribute converters of custom_components/xiaomi_gateway3        *)
(* (core/converters/zigbee.py): the decode / encode / read / config        *)
(* pipeline over a shared payload dict.                                    *)
(*                                                                         *)
(* Python values are tagged records, so that values of different Python    *)
(* types stay comparable:                                                  *)
(*   [int |-> n]   int          [bool |-> b]  bool      [str |-> s]  str   *)
(*   [none |-> TRUE] None       [list |-> q]  list      [tuple |-> q] tuple*)
(*   [num |-> n, den |-> d]     float, the rational n/d                    *)
(* A dict is a function whose DOMAIN is the set of its keys.  Dict keys    *)
(* and cluster / attribute identifiers are strings; a numeric identifier   *)
(* is written as its decimal string (0x8002 is "32770") and None as        *)
(* "None", which is also how an f-string formats them.                     *)
(***************************************************************************)
EXTENDS Integers, Sequences, FiniteSets, TLC

VARIABLES
    payload,   \* the payload dict the calls share
    fresh,     \* the payload as it was created
    before,    \* the payload before the last call
    call,      \* the last call: its operation, converter and arguments
    exc,       \* the exception the last call raised, or "none"
    log        \* the calls made on this payload, each with what it appended

vars == <<payload, fresh, before, call, exc, log>>

----------------------------------------------------------------------------
(* Python values *)

I(n) == [int |-> n]

B(b) == [bool |-> b]

S(s) == [str |-> s]

None == [none |-> TRUE]

L(q) == [list |-> q]

T(q) == [tuple |-> q]

F(n, d) == [num |-> n, den |-> d]

IsNone(w) == "none" \in DOMAIN w

IsStr(w) == "str" \in DOMAIN w

IsList(w) == "list" \in DOMAIN w

IsTuple(w) == "tuple" \in DOMAIN w

IsFloat(w) == "num" \in DOMAIN w

\* isinstance(w, int): bool is a subclass of int
IsInt(w) == "int" \in DOMAIN w \/ "bool" \in DOMAIN w

IntOf(w) == IF "int" \in DOMAIN w THEN w.int ELSE IF w.bool THEN 1 ELSE 0

\* bool(w)
Truthy(w) ==
    IF IsInt(w) THEN IntOf(w) # 0
    ELSE IF IsNone(w) THEN FALSE
    ELSE IF IsStr(w) THEN w.str # ""
    ELSE IF IsList(w) THEN w.list # <<>>
    ELSE IF IsTuple(w) THEN w.tuple # <<>>
    ELSE w.num # 0

\* int(x) of the float n/d, d > 0: truncation towards zero
Trunc(n, d) == IF n >= 0 THEN n \div d ELSE -((-n) \div d)

\* round(n/d), d > 0 and even: ties go to the even integer
RoundHalfEven(n, d) ==
    LET q == n \div d
        r == n % d
    IN  IF 2 * r < d THEN q
        ELSE IF 2 * r > d THEN q + 1
        ELSE IF q % 2 = 0 THEN q ELSE q + 1

RECURSIVE BitAnd(_, _)
\* a & b for a, b >= 0
BitAnd(a, b) ==
    IF a = 0 \/ b = 0 THEN 0
    ELSE (a % 2) * (b % 2) + 2 * BitAnd(a \div 2, b \div 2)

\* a >> k for a >= 0
ShiftRight(a, k) == a \div (2 ^ k)

----------------------------------------------------------------------------
(* dicts and call outcomes *)

EmptyDict == <<>>

\* d.get(k)
Get(d, k) == IF k \in DOMAIN d THEN d[k] ELSE None

\* d[k] = v
Put(d, k, v) == [x \in DOMAIN d \cup {k} |-> IF x = k THEN v ELSE d[x]]

\* d.update(e)
Update(d, e) == [x \in DOMAIN d \cup DOMAIN e |-> IF x \in DOMAIN e THEN e[x] ELSE d[x]]

\* a call that returned, leaving payload p
Ok(p) == [payload |-> p, exc |-> "none"]

\* a call that raised e, leaving payload p
Raise(p, e) == [payload |-> p, exc |-> e]

\* Extend as payload["commands"] = cmd: the pending commands replaced
ExtendOverwrite(p, cmd) == Put(p, "commands", L(cmd))

\* payload.setdefault("commands", []).extend(cmd)
Extend(p, cmd) ==
    LET cur == IF "commands" \in DOMAIN p THEN p["commands"].list ELSE <<>>
    IN  Put(p, "commands", L(cur \o cmd))

\* the pending commands of a payload
Commands(p) == IF "commands" \in DOMAIN p THEN p["commands"].list ELSE <<>>

----------------------------------------------------------------------------
(* converters: the fields of a converter instance.  attr is the semantic   *)
(* attribute (Converter.attr), multiply the MathConv factor as <<n, d>>.   *)

Conv(cls, attr, ep, zigbee, zattr, bind, report) ==
    [cls |-> cls, attr |-> attr, ep |-> ep, zigbee |-> zigbee, zattr |-> zattr,
     bind |-> bind, report |-> report, multiply |-> <<1, 1>>]

\* w == k for an int k: an int, a bool or a float compares by value
PyEqInt(w, k) ==
    \/ IsInt(w) /\ IntOf(w) = k
    \/ IsFloat(w) /\ w.num = k * w.den

\* whether w can be a dict key (a list is unhashable)
Hashable(w) == ~IsList(w)

\* map.get(w) for a map with int keys and str values
MapGet(map, w) ==
    IF \E k \in DOMAIN map : PyEqInt(w, k)
    THEN S(map[CHOOSE k \in DOMAIN map : PyEqInt(w, k)])
    ELSE None

ZTuyaPowerOnConv_map == (0 :> "off") @@ (1 :> "on") @@ (2 :> "previous")

ZSonoffButtonConv_map == (0 :> "hold") @@ (1 :> "double") @@ (2 :> "single")

IKEARemoteConv2_map ==
    (1 :> "brightness_down_hold") @@ (2 :> "brightness_down_click") @@
    (3 :> "brightness_down_release") @@ (4 :> "toggle_hold") @@
    (5 :> "brightness_up_hold") @@ (6 :> "brightness_up_click") @@
    (7 :> "brightness_up_release")

ZAqaraOppleMode_map == (0 :> "binding") @@ (1 :> "multiclick")

----------------------------------------------------------------------------
(* decode(device, payload, value): value is the wire report, a dict *)

ZConverter_decode(c, p, value) ==
    IF "endpoint" \notin DOMAIN value THEN Raise(p, "KeyError")
    ELSE IF PyEqInt(value["endpoint"], c.ep) /\ c.zattr \in DOMAIN value
         THEN Ok(Put(p, c.attr, value[c.zattr]))
         ELSE Ok(p)

ZBoolConv_decode(c, p, value) ==
    IF "endpoint" \notin DOMAIN value THEN Raise(p, "KeyError")
    ELSE IF PyEqInt(value["endpoint"], c.ep) /\ c.zattr \in DOMAIN value
         THEN Ok(Put(p, c.attr, B(Truthy(value[c.zattr]))))
         ELSE Ok(p)

\* MathConv.decode (core/converters/base.py): the value times the multiplier
MathConv_decode(c, p, v) ==
    IF IsInt(v) THEN Ok(Put(p, c.attr, F(IntOf(v) * c.multiply[1], c.multiply[2])))
    ELSE IF IsFloat(v) THEN Ok(Put(p, c.attr, F(v.num * c.multiply[1], v.den * c.multiply[2])))
    ELSE Raise(p, "TypeError")

ZElectricalConv_decode(c, p, value) ==
    IF c.zattr \in DOMAIN value THEN MathConv_decode(c, p, value[c.zattr]) ELSE Ok(p)

\* value[zattr] / 100 when the value is an int; shared by the illuminance,
\* temperature and humidity converters, whose decode bodies are identical
ZIlluminanceConv_decode(c, p, value) ==
    IF IsInt(Get(value, c.zattr))
    THEN Ok(Put(p, c.attr, F(IntOf(value[c.zattr]), 100)))
    ELSE Ok(p)

ZTemperatureConv_decode(c, p, value) ==
    IF IsInt(Get(value, c.zattr))
    THEN Ok(Put(p, c.attr, F(IntOf(value[c.zattr]), 100)))
    ELSE Ok(p)

ZHumidityConv_decode(c, p, value) ==
    IF IsInt(Get(value, c.zattr))
    THEN Ok(Put(p, c.attr, F(IntOf(value[c.zattr]), 100)))
    ELSE Ok(p)

ZIASZoneConv_decode(c, p, value) ==
    LET v == Get(value, "value")
    IN  IF IsList(v) /\ Len(v.list) = 4
        THEN Ok(Put(p, c.attr, B(PyEqInt(v.list[1], 1))))
        ELSE Ok(p)

ZEnergyConv_decode(c, p, value) ==
    IF c.zattr \in DOMAIN value THEN MathConv_decode(c, p, value[c.zattr]) ELSE Ok(p)

ZBatteryConv_decode(c, p, value) ==
    IF IsInt(Get(value, c.zattr))
    THEN Ok(Put(p, c.attr, I(Trunc(IntOf(value[c.zattr]), 2))))
    ELSE IF IsInt(Get(value, "battery_voltage"))
    THEN Ok(Put(p, "battery_voltage", I(IntOf(value["battery_voltage"]) * 100)))
    ELSE Ok(p)

ZBatteryVoltConv_decode(c, p, value) ==
    IF IsInt(Get(value, "battery_voltage"))
    THEN Ok(Put(p, c.zattr, I(IntOf(value[c.zattr]) * 100)))
    ELSE Ok(p)

ZTuyaPowerOnConv_decode(c, p, value) ==
    IF c.zattr \in DOMAIN value
    THEN IF Hashable(value[c.zattr])
         THEN Ok(Put(p, c.attr, MapGet(ZTuyaPowerOnConv_map, value[c.zattr])))
         ELSE Raise(p, "TypeError")
    ELSE Ok(p)

\* CubeRules with the slide test (0x100) ahead of the tap test (0x200)
CubeRulesSlideFirst(p, v) ==
    IF v = 0 THEN Put(p, "action", S("shake"))
    ELSE IF v = 2 THEN Put(p, "action", S("wakeup"))
    ELSE IF v = 3 THEN Put(p, "action", S("fall"))
    ELSE IF BitAnd(v, 256) # 0
    THEN Update(p, ("action" :> S("slide")) @@ ("side" :> I(BitAnd(v, 7))))
    ELSE IF BitAnd(v, 512) # 0
    THEN Update(p, ("action" :> S("tap")) @@ ("side" :> I(BitAnd(v, 7))))
    ELSE IF BitAnd(v, 128) # 0
    THEN Update(p, ("action" :> S("flip180")) @@ ("side" :> I(BitAnd(v, 7))))
    ELSE IF BitAnd(v, 64) # 0
    THEN Update(p, ("action" :> S("flip90"))
                   @@ ("from_side" :> I(BitAnd(ShiftRight(v, 3), 7)))
                   @@ ("to_side" :> I(BitAnd(v, 7))))
    ELSE p

\* the elif chain of ZAqaraCubeMain.decode on an int v >= 0
CubeRules(p, v) ==
    IF v = 0 THEN Put(p, "action", S("shake"))
    ELSE IF v = 2 THEN Put(p, "action", S("wakeup"))
    ELSE IF v = 3 THEN Put(p, "action", S("fall"))
    ELSE IF BitAnd(v, 512) # 0
    THEN Update(p, ("action" :> S("tap")) @@ ("side" :> I(BitAnd(v, 7))))
    ELSE IF BitAnd(v, 256) # 0
    THEN Update(p, ("action" :> S("slide")) @@ ("side" :> I(BitAnd(v, 7))))
    ELSE IF BitAnd(v, 128) # 0
    THEN Update(p, ("action" :> S("flip180")) @@ ("side" :> I(BitAnd(v, 7))))
    ELSE IF BitAnd(v, 64) # 0
    THEN Update(p, ("action" :> S("flip90"))
                   @@ ("from_side" :> I(BitAnd(ShiftRight(v, 3), 7)))
                   @@ ("to_side" :> I(BitAnd(v, 7))))
    ELSE p

ZAqaraCubeMain_decode(c, p, value) ==
    IF c.zattr \notin DOMAIN value THEN Raise(p, "KeyError")
    ELSE LET v == value[c.zattr]
         IN  IF IsInt(v) THEN Ok(CubeRules(p, IntOf(v)))
             \* a float equal to 0, 2 or 3 takes the == branches, anything
             \* else that is not an int reaches `value & 0x200`
             ELSE IF PyEqInt(v, 0) \/ PyEqInt(v, 2) \/ PyEqInt(v, 3)
             THEN Ok(CubeRules(p, v.num \div v.den))
             ELSE Raise(p, "TypeError")

\* whether round(w) and w * 0.001 are defined
IsNumber(w) == IsInt(w) \/ IsFloat(w)

\* round(w) for a number w
PyRound(w) == IF IsInt(w) THEN IntOf(w) ELSE RoundHalfEven(w.num, w.den)

\* round(w * 0.001, 2) for a number w, in hundredths.  A tie (w an odd
\* multiple of 5) is decided by the float's binary representation in
\* Python; the reports of this model carry no such value.
PyRoundMilli(w) ==
    IF IsInt(w) THEN F(RoundHalfEven(IntOf(w), 10), 100)
    ELSE F(RoundHalfEven(w.num, 10 * w.den), 100)

ZAqaraCubeRotate_decode(c, p, value) ==
    IF "present_value" \notin DOMAIN value THEN Raise(p, "KeyError")
    ELSE IF ~IsNumber(value["present_value"]) THEN Raise(p, "TypeError")
    ELSE IF "65285" \notin DOMAIN value THEN Raise(p, "KeyError")
    ELSE IF ~IsNumber(value["65285"]) THEN Raise(p, "TypeError")
    ELSE Ok(Update(p, ("action" :> S("rotate"))
                      @@ ("angle" :> I(PyRound(value["present_value"])))
                      @@ ("duration" :> PyRoundMilli(value["65285"]))))

ZSonoffButtonConv_decode(c, p, value) ==
    IF c.zattr \notin DOMAIN value THEN Raise(p, "KeyError")
    ELSE IF ~Hashable(value[c.zattr]) THEN Raise(p, "TypeError")
    ELSE Ok(Put(p, c.attr, MapGet(ZSonoffButtonConv_map, value[c.zattr])))

ZHueDimmerOnConv_decode(c, p, value) ==
    IF "command_id" \notin DOMAIN value THEN Raise(p, "KeyError")
    ELSE IF PyEqInt(value["command_id"], 1) THEN Ok(Put(p, c.attr, S("button_1_single")))
    ELSE IF PyEqInt(value["command_id"], 64) THEN Ok(Put(p, c.attr, S("button_4_single")))
    ELSE Ok(p)

ZHueDimmerLevelConv_decode(c, p, value) ==
    IF "command" \notin DOMAIN value THEN Raise(p, "KeyError")
    ELSE IF value["command"] # S("step") THEN Ok(p)
    ELSE IF "value" \notin DOMAIN value THEN Raise(p, "KeyError")
    ELSE LET v == value["value"]
         IN  IF IsStr(v)
             THEN (IF v.str = "" THEN Raise(p, "IndexError") ELSE Ok(p))
             ELSE IF ~(IsList(v) \/ IsTuple(v)) THEN Raise(p, "TypeError")
             ELSE LET q == IF IsList(v) THEN v.list ELSE v.tuple
                  IN  IF q = <<>> THEN Raise(p, "IndexError")
                      ELSE IF PyEqInt(q[1], 0) THEN Ok(Put(p, c.attr, S("button_2_single")))
                      ELSE IF PyEqInt(q[1], 1) THEN Ok(Put(p, c.attr, S("button_3_single")))
                      ELSE Ok(p)

ZHueLed_decode(c, p, value) ==
    IF IsInt(Get(value, "51")) THEN Ok(Put(p, c.attr, B(Truthy(value["51"])))) ELSE Ok(p)

IKEARemoteConv1_decode(c, p, value) ==
    IF PyEqInt(Get(value, "command_id"), 2) THEN Ok(Put(p, "button", S("toggle"))) ELSE Ok(p)

IKEARemoteConv2_decode(c, p, value) ==
    IF "command_id" \in DOMAIN value
    THEN IF Hashable(value["command_id"])
         THEN Ok(Put(p, "button", MapGet(IKEARemoteConv2_map, value["command_id"])))
         ELSE Raise(p, "TypeError")
    ELSE Ok(p)

\* conv.decode(device, payload, value) by the class of the converter;
\* a class without a decode of its own inherits ZBoolConv's or ZConverter's
Decode(c, p, value) ==
    CASE c.cls \in {"ZOnOffConv", "ZOccupancyConv"} -> ZBoolConv_decode(c, p, value)
      [] c.cls = "ZElectricalConv" -> ZElectricalConv_decode(c, p, value)
      [] c.cls = "ZIlluminanceConv" -> ZIlluminanceConv_decode(c, p, value)
      [] c.cls = "ZIASZoneConv" -> ZIASZoneConv_decode(c, p, value)
      [] c.cls = "ZTemperatureConv" -> ZTemperatureConv_decode(c, p, value)
      [] c.cls = "ZHumidityConv" -> ZHumidityConv_decode(c, p, value)
      [] c.cls = "ZEnergyConv" -> ZEnergyConv_decode(c, p, value)
      [] c.cls = "ZBatteryConv" -> ZBatteryConv_decode(c, p, value)
      [] c.cls = "ZBatteryVoltConv" -> ZBatteryVoltConv_decode(c, p, value)
      [] c.cls = "ZTuyaPowerOnConv" -> ZTuyaPowerOnConv_decode(c, p, value)
      [] c.cls = "ZAqaraCubeMain" -> ZAqaraCubeMain_decode(c, p, value)
      [] c.cls = "ZAqaraCubeRotate" -> ZAqaraCubeRotate_decode(c, p, value)
      [] c.cls = "ZSonoffButtonConv" -> ZSonoffButtonConv_decode(c, p, value)
      [] c.cls = "ZHueDimmerOnConv" -> ZHueDimmerOnConv_decode(c, p, value)
      [] c.cls = "ZHueDimmerLevelConv" -> ZHueDimmerLevelConv_decode(c, p, value)
      [] c.cls = "ZHueLed" -> ZHueLed_decode(c, p, value)
      [] c.cls = "IKEARemoteConv1" -> IKEARemoteConv1_decode(c, p, value)
      [] c.cls = "IKEARemoteConv2" -> IKEARemoteConv2_decode(c, p, value)
      [] OTHER -> ZConverter_decode(c, p, value)

----------------------------------------------------------------------------
(* request builders (core/converters/silabs.py): each returns a list of    *)
(* one request, taken as the record of the arguments it was built from.    *)
(* attrs are attribute identifiers, args the remaining arguments; an       *)
(* argument left to its default is None.                                   *)

Request(cmd, nwk, ep, cluster, attrs, args) ==
    <<[cmd |-> cmd, nwk |-> nwk, ep |-> ep, cluster |-> cluster,
       attrs |-> attrs, args |-> args]>>

zcl_read(nwk, ep, cluster, attrs) == Request("read", nwk, ep, cluster, attrs, <<>>)

zcl_write(nwk, ep, cluster, attr, data, type, mfg) ==
    Request("write", nwk, ep, cluster, <<attr>>, <<data, type, mfg>>)

zdo_bind(nwk, ep, cluster, src, dst) ==
    Request("bind", nwk, ep, cluster, <<>>, <<[chars |-> src], [chars |-> dst]>>)

zdb_report(nwk, ep, cluster, attr, mint, maxt, change) ==
    Request("report", nwk, ep, cluster, <<attr>>, <<I(mint), I(maxt), I(change)>>)

zcl_on_off(nwk, ep, value) == Request("on_off", nwk, ep, "on_off", <<>>, <<value>>)

zcl_level(nwk, ep, br, tr) == Request("level", nwk, ep, "level", <<>>, <<br, tr>>)

zcl_color(nwk, ep, ct, tr) == Request("color", nwk, ep, "light_color", <<>>, <<ct, tr>>)

\* core/converters/const.py
HOUR == 3600

HOUR12 == 43200

\* default reporting settings
REPORTING ==
    ("temperature:measured_value" :> <<10, HOUR, 100>>) @@
    ("humidity:measured_value" :> <<10, HOUR, 100>>) @@
    ("power:battery_percentage_remaining" :> <<HOUR, HOUR12, 0>>) @@
    ("power:battery_voltage" :> <<HOUR, HOUR12, 0>>) @@
    ("occupancy:occupancy" :> <<0, HOUR, 0>>) @@
    ("illuminance:measured_value" :> <<10, HOUR, 5>>)

\* f"{self.zigbee}:{self.zattr}"
ReportingKey(c) == c.zigbee \o ":" \o c.zattr

\* device.mac[2:]
MacTail(mac) == SubSeq(mac, 3, Len(mac))

----------------------------------------------------------------------------
(* read(device, payload) *)

ZConverter_read(c, device, p) ==
    Ok(Extend(p, zcl_read(device.nwk, c.ep, c.zigbee, <<c.zattr>>)))

ZElectricalConv_read(c, device, p) ==
    Ok(Extend(p, zcl_read(device.nwk, 1, c.zigbee,
                          <<"rms_voltage", "rms_current", "active_power">>)))

ZBatteryConv_read(c, device, p) ==
    Ok(Extend(p, zcl_read(device.nwk, c.ep, c.zigbee, <<c.zattr, "battery_voltage">>)))

ZHueDimmerOnConv_read(c, device, p) == Ok(p)

ZHueDimmerLevelConv_read(c, device, p) == Ok(p)

ZHueLed_read(c, device, p) == Ok(Extend(p, zcl_read(device.nwk, 2, c.zigbee, <<"51">>)))

ZAqaraOppleMode_read(c, device, p) == Ok(p)

\* the classes whose read is defined in zigbee.py: ZConverter's subclasses
\* and the two plain converters that define their own
ReadClasses ==
    {"ZOnOffConv", "ZBrightnessConv", "ZColorTempConv", "ZIlluminanceConv",
     "ZOccupancyConv", "ZOccupancyTimeoutConv", "ZTemperatureConv", "ZHumidityConv",
     "ZBatteryConv", "ZBatteryVoltConv", "ZTuyaPowerOnConv", "ZSonoffButtonConv",
     "ZHueDimmerOnConv", "ZHueDimmerLevelConv", "IKEARemoteConv1", "IKEARemoteConv2",
     "ZAqaraOppleMode", "ZElectricalConv", "ZHueLed"}

\* conv.read(device, payload) by the class of the converter
Read(c, device, p) ==
    CASE c.cls = "ZElectricalConv" -> ZElectricalConv_read(c, device, p)
      [] c.cls \in {"ZBatteryConv", "ZBatteryVoltConv"} -> ZBatteryConv_read(c, device, p)
      [] c.cls = "ZHueDimmerOnConv" -> ZHueDimmerOnConv_read(c, device, p)
      [] c.cls = "ZHueDimmerLevelConv" -> ZHueDimmerLevelConv_read(c, device, p)
      [] c.cls = "ZHueLed" -> ZHueLed_read(c, device, p)
      [] c.cls = "ZAqaraOppleMode" -> ZAqaraOppleMode_read(c, device, p)
      [] OTHER -> ZConverter_read(c, device, p)

----------------------------------------------------------------------------
(* config(device, payload, gateway) *)

\* the `if self.bind:` block
ConfigBind(c, device, p, gateway) ==
    IF c.bind
    THEN Extend(p, zdo_bind(device.nwk, c.ep, c.zigbee, MacTail(device.mac), gateway.ieee))
    ELSE p

\* the attribute the configure-reporting request is built for
ConfigReportAttr(c) == c.attr

\* the `if self.report:` block, on the payload the bind block left
ConfigReport(c, device, p) ==
    IF ~Truthy(c.report) THEN Ok(p)
    ELSE IF "bool" \in DOMAIN c.report /\ ReportingKey(c) \notin DOMAIN REPORTING
    THEN Raise(p, "TypeError")   \* *args of None
    ELSE LET args == IF "bool" \in DOMAIN c.report
                     THEN REPORTING[ReportingKey(c)]
                     ELSE [i \in DOMAIN c.report.list |-> c.report.list[i].int]
         IN  IF Len(args) # 3 THEN Raise(p, "TypeError")
             ELSE Ok(Extend(p, zdb_report(device.nwk, c.ep, c.zigbee, ConfigReportAttr(c),
                                          args[1], args[2], args[3])))

ZConverter_config(c, device, p, gateway) ==
    ConfigReport(c, device, ConfigBind(c, device, p, gateway))

ZHueDimmerOnConv_config(c, device, p, gateway) ==
    LET r == ZConverter_config(c, device, p, gateway)
    IN  IF r.exc # "none" THEN r
        ELSE Ok(Extend(r.payload,
                       zcl_write(device.nwk, 2, "basic", "49", I(11), I(25), I(4107))))

\* the classes whose config is defined in zigbee.py: ZConverter's subclasses
ConfigClasses == ReadClasses \ {"ZElectricalConv", "ZHueLed"}

\* conv.config(device, payload, gateway) by the class of the converter
Config(c, device, p, gateway) ==
    IF c.cls = "ZHueDimmerOnConv" THEN ZHueDimmerOnConv_config(c, device, p, gateway)
    ELSE ZConverter_config(c, device, p, gateway)

----------------------------------------------------------------------------
(* encode(device, payload, value) *)

ZOnOffConv_encode(c, device, p, value) ==
    Ok(Extend(p, zcl_on_off(device.nwk, c.ep, value)))

\* `if not isinstance(value, tuple): value = (value, 1)`
WithTransition(value) == IF IsTuple(value) THEN value.tuple ELSE <<value, I(1)>>

\* zcl_level(nwk, ep, *value): the builder takes exactly two more arguments
ZBrightnessConv_encode(c, device, p, value) ==
    LET v == WithTransition(value)
    IN  IF Len(v) # 2 THEN Raise(p, "TypeError")
        ELSE Ok(Extend(p, zcl_level(device.nwk, c.ep, v[1], v[2])))

ZColorTempConv_encode(c, device, p, value) ==
    LET v == WithTransition(value)
    IN  IF Len(v) # 2 THEN Raise(p, "TypeError")
        ELSE Ok(Extend(p, zcl_color(device.nwk, c.ep, v[1], v[2])))

\* the write, then "we need to read new value after write"
ZOccupancyTimeoutConv_encode(c, device, p, value) ==
    ZConverter_read(c, device,
        Extend(p, zcl_write(device.nwk, c.ep, c.zigbee, c.zattr, value, None, None)))

\* the keys k of map with map[k] == value, as next(k for k, v in map.items()
\* if v == value) meets them: in insertion order, which is ascending here
ReverseKeys(map, value) == {k \in DOMAIN map : S(map[k]) = value}

\* the first such key
ReverseFirst(map, value) ==
    CHOOSE k \in ReverseKeys(map, value) : \A j \in ReverseKeys(map, value) : k <= j

\* ZTuyaPowerOnConv.encode with next(..., 0): a default code for an unknown label
ZTuyaPowerOnConv_encode_default(c, device, p, value) ==
    LET v == IF ReverseKeys(ZTuyaPowerOnConv_map, value) = {} THEN 0
             ELSE ReverseFirst(ZTuyaPowerOnConv_map, value)
    IN  Ok(Extend(p, zcl_write(device.nwk, c.ep, c.zigbee, c.zattr, I(v), I(48), None)))

\* next() on an exhausted generator raises StopIteration, before any
\* request is built
ZTuyaPowerOnConv_encode(c, device, p, value) ==
    IF ReverseKeys(ZTuyaPowerOnConv_map, value) = {} THEN Raise(p, "StopIteration")
    ELSE Ok(Extend(p, zcl_write(device.nwk, c.ep, c.zigbee, c.zattr,
                                I(ReverseFirst(ZTuyaPowerOnConv_map, value)), I(48), None)))

ZAqaraOppleMode_encode(c, device, p, value) ==
    IF ReverseKeys(ZAqaraOppleMode_map, value) = {} THEN Raise(p, "StopIteration")
    ELSE Ok(Extend(p, zcl_write(device.nwk, c.ep, c.zigbee, "9",
                                I(ReverseFirst(ZAqaraOppleMode_map, value)), I(32), I(4447))))

\* int(value) of a bool or an int; of a str that is no number it raises
\* ValueError, of None TypeError
ZHueLed_encode(c, device, p, value) ==
    IF IsStr(value) THEN Raise(p, "ValueError")
    ELSE IF ~IsInt(value) THEN Raise(p, "TypeError")
    ELSE Ok(Extend(p, zcl_write(device.nwk, 2, c.zigbee, "51", I(IntOf(value)), I(16), None)))

\* the classes that define encode in zigbee.py
EncodeClasses ==
    {"ZOnOffConv", "ZBrightnessConv", "ZColorTempConv", "ZOccupancyTimeoutConv",
     "ZTuyaPowerOnConv", "ZAqaraOppleMode", "ZHueLed"}

\* conv.encode(device, payload, value) by the class of the converter
Encode(c, device, p, value) ==
    CASE c.cls = "ZOnOffConv" -> ZOnOffConv_encode(c, device, p, value)
      [] c.cls = "ZBrightnessConv" -> ZBrightnessConv_encode(c, device, p, value)
      [] c.cls = "ZColorTempConv" -> ZColorTempConv_encode(c, device, p, value)
      [] c.cls = "ZOccupancyTimeoutConv" -> ZOccupancyTimeoutConv_encode(c, device, p, value)
      [] c.cls = "ZTuyaPowerOnConv" -> ZTuyaPowerOnConv_encode(c, device, p, value)
      [] c.cls = "ZAqaraOppleMode" -> ZAqaraOppleMode_encode(c, device, p, value)
      [] c.cls = "ZHueLed" -> ZHueLed_encode(c, device, p, value)

----------------------------------------------------------------------------
(* converter instances: the catalog at the end of zigbee.py and instances  *)
(* of the other classes as device definitions construct them               *)

ZOnOffConv(attr, ep, bind, report) ==
    Conv("ZOnOffConv", attr, ep, "on_off", "on_off", bind, report)

ZElectricalConv(attr, zattr, multiply) ==
    [Conv("ZElectricalConv", attr, 1, "electrical_measurement", zattr, FALSE, None)
        EXCEPT !.multiply = multiply]

ZSwitch == ZOnOffConv("switch", 1, FALSE, None)

ZCurrent == ZElectricalConv("current", "rms_current", <<1, 1000>>)

ZVoltage == ZElectricalConv("voltage", "rms_voltage", <<1, 1>>)

ZPower == ZElectricalConv("power", "active_power", <<1, 1>>)

ZLight == ZOnOffConv("light", 1, FALSE, None)

ZBrightness == Conv("ZBrightnessConv", "brightness", 1, "level", "current_level", FALSE, None)

ZColorTemp ==
    Conv("ZColorTempConv", "color_temp", 1, "light_color", "color_temperature", FALSE, None)

ZTuyaPowerOn == Conv("ZTuyaPowerOnConv", "power_on_state", 1, "on_off", "32770", FALSE, None)

Catalog == {ZSwitch, ZCurrent, ZVoltage, ZPower, ZLight, ZBrightness, ZColorTemp, ZTuyaPowerOn}

\* sensors, with bind and default reporting as their device definitions ask
Sensors ==
    {Conv("ZIlluminanceConv", "illuminance", 1, "illuminance", "measured_value", TRUE, B(TRUE)),
     Conv("ZOccupancyConv", "occupancy", 1, "occupancy", "occupancy", TRUE, B(TRUE)),
     Conv("ZOccupancyTimeoutConv", "occupancy_timeout", 1, "occupancy", "pir_o_to_u_delay",
          FALSE, None),
     Conv("ZIASZoneConv", "contact", 1, "ias_zone", "None", FALSE, None),
     Conv("ZTemperatureConv", "temperature", 1, "temperature", "measured_value", TRUE, B(TRUE)),
     Conv("ZHumidityConv", "humidity", 1, "humidity", "measured_value", TRUE, B(TRUE)),
     [Conv("ZEnergyConv", "energy", 1, "smartenergy_metering", "current_summ_delivered",
           FALSE, None) EXCEPT !.multiply = <<1, 100>>],
     Conv("ZBatteryConv", "battery", 1, "power", "battery_percentage_remaining", TRUE, B(TRUE)),
     Conv("ZBatteryVoltConv", "battery_voltage", 1, "power", "battery_voltage", FALSE, B(TRUE))}

\* remotes, the cube and vendor attributes
Remotes ==
    {Conv("ZAqaraCubeMain", "action", 1, "multistate_input", "present_value", FALSE, None),
     Conv("ZAqaraCubeRotate", "angle", 1, "analog_input", "present_value", FALSE, None),
     Conv("ZSonoffButtonConv", "action", 1, "on_off", "command_id", TRUE, None),
     Conv("ZHueDimmerOnConv", "action", 1, "on_off", "None", TRUE, None),
     Conv("ZHueDimmerLevelConv", "action", 1, "level", "None", TRUE, None),
     Conv("ZHueLed", "led", 2, "basic", "None", FALSE, None),
     Conv("IKEARemoteConv1", "action", 1, "on_off", "None", TRUE, None),
     Conv("IKEARemoteConv2", "action", 1, "level", "None", TRUE, None),
     Conv("ZAqaraOppleMode", "mode", 1, "64704", "None", FALSE, None)}

\* a second channel, a switch asking for default reporting, which the
\* policy table has no entry for, and a light with an explicit triple
Variants ==
    {ZOnOffConv("channel_2", 2, FALSE, None),
     ZOnOffConv("plug", 1, TRUE, B(TRUE)),
     ZOnOffConv("outlet", 1, FALSE, B(TRUE)),
     Conv("ZBrightnessConv", "brightness", 1, "level", "current_level", TRUE,
          L(<<I(1), I(HOUR), I(1)>>))}

Converters == Catalog \cup Sensors \cup Remotes \cup Variants

Devices == {[nwk |-> "0x12ab", mac |-> <<"0", "x", "0", "0", "1", "5", "8", "d">>]}

Gateway == [ieee |-> <<"5", "4", "e", "f">>]

----------------------------------------------------------------------------
(* inputs *)

\* the cube's primary channel carries 0 .. MaxCubeValue
MaxCubeValue == 1023

\* calls made on one payload in a read / encode / config pass
MaxCalls == 2

\* the attribute part of a wire report
ReportAttrs ==
    {EmptyDict,
     "on_off" :> I(0), "on_off" :> I(1),
     "current_level" :> I(128),
     "measured_value" :> I(2350), "measured_value" :> S("n/a"),
     "battery_percentage_remaining" :> I(200), "battery_percentage_remaining" :> I(0),
     "battery_percentage_remaining" :> I(101), "battery_voltage" :> I(30),
     ("battery_percentage_remaining" :> I(90)) @@ ("battery_voltage" :> I(29)),
     "rms_current" :> I(1500), "current_summ_delivered" :> I(12),
     "occupancy" :> I(1), "pir_o_to_u_delay" :> I(60),
     "value" :> L(<<I(1), I(0), I(0), I(0)>>), "value" :> L(<<I(0), I(0), I(0), I(0)>>),
     "value" :> L(<<I(1)>>),
     "32770" :> I(0), "32770" :> I(1), "32770" :> I(2), "32770" :> I(7),
     "32770" :> L(<<>>),
     "present_value" :> S("n/a"),
     ("present_value" :> I(90)) @@ ("65285" :> I(1234)),
     ("present_value" :> F(-905, 10)) @@ ("65285" :> I(500)),
     ("present_value" :> F(25, 10)) @@ ("65285" :> S("n/a")),
     "command_id" :> I(0), "command_id" :> I(1), "command_id" :> I(2),
     "command_id" :> I(64), "command_id" :> I(9),
     ("command" :> S("step")) @@ ("value" :> L(<<I(0), I(30), I(9)>>)),
     ("command" :> S("step")) @@ ("value" :> L(<<I(1), I(30), I(9)>>)),
     ("command" :> S("step")) @@ ("value" :> L(<<>>)),
     "command" :> S("step"), "command" :> S("move"),
     "51" :> I(1), "51" :> B(FALSE),
     "9" :> I(0), "9" :> I(1), "9" :> I(5)}

\* wire reports: with endpoint 1 or 2, or without the endpoint key
Reports ==
    ReportAttrs
    \cup {("endpoint" :> I(e)) @@ a : e \in {1, 2}, a \in ReportAttrs}
    \cup {("endpoint" :> I(1)) @@ ("present_value" :> I(v)) : v \in 0 .. MaxCubeValue}

\* a payload as a call finds it: new, or holding what earlier converters
\* of the same pass left
FreshPayloads ==
    {EmptyDict,
     ("action" :> S("hold")) @@ ("side" :> I(5)) @@ ("battery" :> I(50)),
     "commands" :> L(zcl_read("0x12ab", 1, "basic", <<"model">>))}

\* values handed to encode, by the class of the converter: the values its
\* entity sends, and values it cannot encode
EncodeValues(c) ==
    CASE c.cls = "ZOnOffConv" -> {B(TRUE), B(FALSE)}
      [] c.cls \in {"ZBrightnessConv", "ZColorTempConv"} ->
            {I(128), T(<<I(128), I(2)>>), T(<<I(128)>>)}
      [] c.cls = "ZOccupancyTimeoutConv" -> {I(60)}
      [] c.cls = "ZTuyaPowerOnConv" -> {S("off"), S("on"), S("previous"), S("toggle")}
      [] c.cls = "ZAqaraOppleMode" -> {S("binding"), S("multiclick"), S("toggle"), None}
      [] c.cls = "ZHueLed" -> {B(TRUE), None}
      [] OTHER -> {}

\* the converters of the request-building pass: one instance of each class
\* and of each bind / report setting
PassConverters ==
    {c \in Converters :
        c.attr \in {"plug", "outlet", "brightness", "color_temp", "power_on_state", "current",
                    "occupancy", "occupancy_timeout", "battery", "action", "led", "mode"}}

----------------------------------------------------------------------------
(* the state machine: one payload, the calls made on it *)

NoCall == [op |-> "new"]

InitPayload(p) ==
    /\ payload = p
    /\ fresh = p
    /\ before = p
    /\ call = NoCall
    /\ exc = "none"
    /\ log = <<>>

Init == \E p \in FreshPayloads : InitPayload(p)

\* what a call appended to the pending commands
Emitted(old, new) == SubSeq(Commands(new), Len(Commands(old)) + 1, Len(Commands(new)))

\* the call returned or raised: its effect on the state
Called(c, res) ==
    /\ payload' = res.payload
    /\ exc' = res.exc
    /\ before' = payload
    /\ call' = c
    /\ fresh' = fresh
    /\ log' = Append(log, [call |-> c, emitted |-> Emitted(payload, res.payload)])

\* a new payload for the next report or pass
NewPayload ==
    /\ call # NoCall
    /\ \E p \in FreshPayloads :
          /\ payload' = p
          /\ fresh' = p
          /\ before' = p
          /\ call' = NoCall
          /\ exc' = "none"
          /\ log' = <<>>

\* one converter decodes one wire report
DecodeCall ==
    /\ log = <<>>
    /\ \E c \in Converters, r \in Reports :
          Called([op |-> "decode", conv |-> c, value |-> r], Decode(c, payload, r))

ReadCall ==
    /\ Len(log) < MaxCalls
    /\ \E c \in PassConverters, d \in Devices :
          /\ c.cls \in ReadClasses
          /\ Called([op |-> "read", conv |-> c, device |-> d], Read(c, d, payload))

EncodeCall ==
    /\ Len(log) < MaxCalls
    /\ \E c \in PassConverters, d \in Devices :
          /\ c.cls \in EncodeClasses
          /\ \E v \in EncodeValues(c) :
                Called([op |-> "encode", conv |-> c, device |-> d, value |-> v],
                       Encode(c, d, payload, v))

ConfigCall ==
    /\ Len(log) < MaxCalls
    /\ \E c \in PassConverters, d \in Devices :
          /\ c.cls \in ConfigClasses
          /\ Called([op |-> "config", conv |-> c, device |-> d], Config(c, d, payload, Gateway))

\* the pass that builds requests: read, encode and config on one payload
Next == ReadCall \/ EncodeCall \/ ConfigCall \/ NewPayload

Spec == Init /\ [][Next]_vars

\* the dispatch of an inbound report to a converter
NextDecode == DecodeCall \/ NewPayload

SpecDecode == Init /\ [][NextDecode]_vars

----------------------------------------------------------------------------
(* properties *)

\* the last call was conv.decode of class cls
Decoded(cls) == call.op = "decode" /\ call.conv.cls = cls

\* bit b (a power of two) of v is set
BitSet(v, b) == (v \div b) % 2 = 1

\* what the gesture rules put into the payload for wire value v
CubeExpected(v) ==
    IF v = 0 THEN "action" :> S("shake")
    ELSE IF v = 2 THEN "action" :> S("wakeup")
    ELSE IF v = 3 THEN "action" :> S("fall")
    ELSE IF BitSet(v, 512) THEN ("action" :> S("tap")) @@ ("side" :> I(v % 8))
    ELSE IF BitSet(v, 256) THEN ("action" :> S("slide")) @@ ("side" :> I(v % 8))
    ELSE IF BitSet(v, 128) THEN ("action" :> S("flip180")) @@ ("side" :> I(v % 8))
    ELSE IF BitSet(v, 64)
    THEN ("action" :> S("flip90")) @@ ("from_side" :> I((v \div 8) % 8))
         @@ ("to_side" :> I(v % 8))
    ELSE EmptyDict

\* C1: for every integer wire value v of the cube's primary channel, decode
\* yields the result of the first matching rule (0 shake, 2 wakeup, 3 fall,
\* 0x200 tap, 0x100 slide, 0x80 flip180, 0x40 flip90, with the sides taken
\* from the low bits), and leaves the payload unchanged when none matches.
C1_CubeFirstMatch ==
    (/\ Decoded("ZAqaraCubeMain")
     /\ "present_value" \in DOMAIN call.value
     /\ "int" \in DOMAIN call.value["present_value"])
    => /\ exc = "none"
       /\ payload = CubeExpected(call.value["present_value"].int) @@ before

\* 0x300 has the tap and the slide bit set: tap wins
C1_Witness ==
    /\ Decoded("ZAqaraCubeMain")
    /\ Get(call.value, "present_value") = I(768 + 5)
    /\ before # EmptyDict
    /\ Get(payload, "action") = S("tap")
    /\ Get(payload, "side") = I(5)

\* C2: for every converter with a configured endpoint and every report
\* whose endpoint differs from it, decode leaves the payload as it was.
C2_EndpointMismatchNoOp ==
    (/\ call.op = "decode"
     /\ call.conv.cls \in ConfigClasses
     /\ "endpoint" \in DOMAIN call.value
     /\ ~PyEqInt(call.value["endpoint"], call.conv.ep))
    => payload = before

\* C3: decode never raises, and a report that carries no attribute at all
\* leaves the payload as it was.
C3_DecodeNeverRaises ==
    call.op = "decode"
    => /\ exc = "none"
       /\ (DOMAIN call.value \subseteq {"endpoint"} => payload = before)

\* the map of a table-driven converter and the report key holding its code
TableOf(c) ==
    CASE c.cls = "ZSonoffButtonConv" -> [map |-> ZSonoffButtonConv_map, key |-> c.zattr]
      [] c.cls = "IKEARemoteConv2" -> [map |-> IKEARemoteConv2_map, key |-> "command_id"]
      [] c.cls = "ZTuyaPowerOnConv" -> [map |-> ZTuyaPowerOnConv_map, key |-> c.zattr]

\* C4: a table-driven decoder given a wire code that is no key of its map
\* leaves the payload unchanged: the semantic key is neither added nor set
\* to None.
C4_UnmappedCodeNoOp ==
    (/\ call.op = "decode"
     /\ call.conv.cls \in {"ZSonoffButtonConv", "IKEARemoteConv2", "ZTuyaPowerOnConv"}
     /\ TableOf(call.conv).key \in DOMAIN call.value
     /\ "int" \in DOMAIN call.value[TableOf(call.conv).key]
     /\ call.value[TableOf(call.conv).key].int \notin DOMAIN TableOf(call.conv).map)
    => payload = before

\* the label map of an enumerated converter
EnumMap(c) ==
    IF c.cls = "ZTuyaPowerOnConv" THEN ZTuyaPowerOnConv_map ELSE ZAqaraOppleMode_map

EnumClasses == {"ZTuyaPowerOnConv", "ZAqaraOppleMode"}

\* C5: encode of an enumerated converter with a label that is no value of
\* its map raises to the caller (StopIteration, the unknown-label
\* condition) and appends no command.
C5_UnknownLabelRaises ==
    (/\ call.op = "encode"
     /\ call.conv.cls \in EnumClasses
     /\ \A k \in DOMAIN EnumMap(call.conv) : call.value # S(EnumMap(call.conv)[k]))
    => /\ exc = "StopIteration"
       /\ payload = before

C5_Witness ==
    /\ call.op = "encode"
    /\ call.conv.cls = "ZTuyaPowerOnConv"
    /\ call.value = S("toggle")
    /\ Commands(before) # <<>>
    /\ exc = "StopIteration"

\* C6: for every enumerated converter and every label L of its map, encode
\* of L writes a code c to a wire attribute, and decode of a report that
\* carries c at that attribute sets the semantic attribute to L.
C6_EnumRoundTrip ==
    (/\ call.op = "decode"
     /\ call.conv.cls \in EnumClasses
     /\ Get(call.value, "endpoint") = I(call.conv.ep))
    => \A k \in DOMAIN EnumMap(call.conv), d \in Devices :
          LET label == S(EnumMap(call.conv)[k])
              written == Commands(Encode(call.conv, d, EmptyDict, label).payload)
          IN  (/\ Len(written) = 1
               /\ written[1].cmd = "write"
               /\ Get(call.value, written[1].attrs[1]) = written[1].args[1])
              => Get(payload, call.conv.attr) = label

\* C7: config with report=True and no entry in the policy table fails and
\* adds no command, also when the converter is bindable.
C7_MissingPolicyEmitsNothing ==
    (/\ call.op = "config"
     /\ call.conv.report = B(TRUE)
     /\ ReportingKey(call.conv) \notin DOMAIN REPORTING)
    => /\ exc # "none"
       /\ Commands(payload) = Commands(before)

PushOnlyClasses ==
    {"ZSonoffButtonConv", "ZHueDimmerOnConv", "ZHueDimmerLevelConv", "IKEARemoteConv1",
     "IKEARemoteConv2"}

\* C8: read of a converter backed by push-only button events appends no
\* command and leaves the payload unchanged.
C8_PushOnlyReadNoOp ==
    (call.op = "read" /\ call.conv.cls \in PushOnlyClasses) => payload = before

\* a logged call made on payload p
Apply(c, p) ==
    CASE c.op = "read" -> Read(c.conv, c.device, p)
      [] c.op = "encode" -> Encode(c.conv, c.device, p, c.value)
      [] c.op = "config" -> Config(c.conv, c.device, p, Gateway)

\* what a call emits alone, on an empty payload
Alone(c) == Commands(Apply(c, EmptyDict).payload)

RECURSIVE Concat(_)
\* the commands of a sequence of log entries, in order
Concat(q) == IF q = <<>> THEN <<>> ELSE Head(q).emitted \o Concat(Tail(q))

\* C9: the pending commands are, in order, those the payload was created
\* with followed by what each call emits alone, whatever the list held when
\* the call was made; two config calls of one converter emit identical
\* sequences, each with the bind request before the configure-reporting one.
C9_OrderPreserved ==
    /\ Commands(payload) = Commands(fresh) \o Concat(log)
    /\ \A i \in DOMAIN log : log[i].emitted = Alone(log[i].call)
    /\ \A i, j \in DOMAIN log :
          (log[i].call.op = "config" /\ log[i].call = log[j].call)
          => log[i].emitted = log[j].emitted
    /\ \A i \in DOMAIN log :
          log[i].call.op = "config"
          => \A a, b \in DOMAIN log[i].emitted :
                (log[i].emitted[a].cmd = "bind" /\ log[i].emitted[b].cmd = "report") => a < b

\* config twice on a payload that already held a command
C9_Witness ==
    /\ Len(log) = 2
    /\ log[1].call.op = "config"
    /\ log[1].call = log[2].call
    /\ Commands(fresh) # <<>>
    /\ Len(log[1].emitted) = 2
    /\ log[1].emitted[1].cmd = "bind"
    /\ log[2].emitted[2].cmd = "report"
    /\ Len(Commands(payload)) = 5

\* C10: the configure-reporting request of config is built for the wire
\* attribute (zattr) that forms the key of the policy lookup.
C10_ReportForWireAttr ==
    (call.op = "config" /\ exc = "none")
    => \A i \in DOMAIN Emitted(before, payload) :
          Emitted(before, payload)[i].cmd = "report"
          => Emitted(before, payload)[i].attrs = <<call.conv.zattr>>

====
